---- MODULE Spec2Model ----
(***************************************************************************)
(* Model of bot.py: the webhook receiver threads, the cross-thread queue,  *)
(* the telegram worker loop, the command handlers and the Google Sheets    *)
(* manager (one worksheet per chat, column A holds the item texts).        *)
(*                                                                         *)
(* A text is a sequence of one-character strings, so that strip(), the     *)
(* two regular expressions and the f-string formatting are computed as     *)
(* the code computes them.                                                 *)
(***************************************************************************)
EXTENDS Integers, Sequences, FiniteSets, TLC

(***************************************************************************)
(* Bounds of the model.                                                    *)
(***************************************************************************)
\* number of webhook requests received during a run
MaxEvents == 3

\* longest name and largest quantity handed to the item codec on its own
MaxNameLen == 4
MaxQuantity == 11

\* chat scopes and Flask request threads
Chats == {1, 2}
Receivers == {"t1", "t2"}

(***************************************************************************)
(* Texts.                                                                  *)
(***************************************************************************)
DigitChars == <<"0", "1", "2", "3", "4", "5", "6", "7", "8", "9">>

IsDigit(ch) == \E d \in 1..10 : DigitChars[d] = ch

DigitVal(ch) == (CHOOSE d \in 1..10 : DigitChars[d] = ch) - 1

IsSpace(ch) == ch = " "

RECURSIVE LStrip(_)
LStrip(s) == IF s # <<>> /\ IsSpace(s[1]) THEN LStrip(Tail(s)) ELSE s

RECURSIVE RStrip(_)
RStrip(s) ==
    IF s # <<>> /\ IsSpace(s[Len(s)]) THEN RStrip(SubSeq(s, 1, Len(s) - 1)) ELSE s

\* str.strip()
Strip(s) == RStrip(LStrip(s))

\* int("<digits>")
RECURSIVE IntOf(_)
IntOf(ds) ==
    IF ds = <<>> THEN 0
    ELSE 10 * IntOf(SubSeq(ds, 1, Len(ds) - 1)) + DigitVal(ds[Len(ds)])

\* str(n) for n >= 0
RECURSIVE StrOf(_)
StrOf(n) ==
    IF n < 10 THEN <<DigitChars[n + 1]>>
    ELSE StrOf(n \div 10) \o <<DigitChars[(n % 10) + 1]>>

\* " ".join(args)
RECURSIVE Join(_)
Join(args) ==
    IF args = <<>> THEN <<>>
    ELSE IF Len(args) = 1 THEN args[1]
    ELSE args[1] \o <<" ">> \o Join(Tail(args))

Min(S) == CHOOSE x \in S : \A y \in S : x <= y

\* F(v), with v computed once
Let(v, F(_)) == CHOOSE r \in {F(x) : x \in {v}} : TRUE

\* t matches \s*\((\d+)\)\s*$ from its first character on
MatchesOneDigitSuffix(t) ==
    \E u \in {Strip(t)} :
        /\ Len(u) = 3
        /\ u[1] = "("
        /\ u[Len(u)] = ")"
        /\ IsDigit(u[2])

MatchesQtySuffix(t) ==
    \E u \in {Strip(t)} :
        /\ Len(u) >= 3
        /\ u[1] = "("
        /\ u[Len(u)] = ")"
        /\ \A k \in 2..(Len(u) - 1) : IsDigit(u[k])

\* group of digits of a text that MatchesQtySuffix
QtyDigits(t) == Let(Strip(t), LAMBDA u : SubSeq(u, 2, Len(u) - 1))

Suffix(s, start) == SubSeq(s, start + 1, Len(s))

\* the f-string  f"{item} ({quantity})" if quantity > 1 else item
FormatItem(item, quantity) ==
    IF quantity > 1 THEN item \o <<" ", "(">> \o StrOf(quantity) \o <<")">>
    ELSE item

\* GoogleSheetsManager._parse_item: re.match(r'^(.+?)\s*\((\d+)\)\s*$', row.strip())
\* The lazy group takes the fewest characters (at least one) that let the rest match.
ParseItem(row) ==
    Let(Strip(row), LAMBDA r :
        Let({k \in 1..(Len(r) - 1) : MatchesQtySuffix(Suffix(r, k))}, LAMBDA ks :
            IF ks # {}
            THEN Let(Min(ks), LAMBDA k :
                     [item |-> Strip(SubSeq(r, 1, k)),
                      quantity |-> IntOf(QtyDigits(Suffix(r, k)))])
            ELSE [item |-> r, quantity |-> 1]))

\* add_item handler: re.search(r'\s*\((\d+)\)\s*$', full_text), leftmost match;
\* "usage" when there are no args, "empty" when the article is empty.
ParseAddArgs(args) ==
    Let(Join(args), LAMBDA full_text :
        Let({i \in 0..(Len(full_text) - 1) : MatchesQtySuffix(Suffix(full_text, i))},
            LAMBDA starts :
            IF args = <<>> THEN [ok |-> FALSE, why |-> "usage", item |-> <<>>, quantity |-> 0]
            ELSE IF starts # {}
            THEN Let(Min(starts), LAMBDA i :
                     Let(Strip(SubSeq(full_text, 1, i)), LAMBDA item :
                         [ok |-> item # <<>>, why |-> "empty", item |-> item,
                          quantity |-> IntOf(QtyDigits(Suffix(full_text, i)))]))
            ELSE Let(Strip(full_text), LAMBDA item :
                     [ok |-> item # <<>>, why |-> "empty", item |-> item, quantity |-> 1])))

(***************************************************************************)
(* The worksheet of a chat: column A as the sequence of its cell texts     *)
(* (cell 1 is A1).  An empty text is a blank cell.                         *)
(***************************************************************************)
Header == <<"A", "r", "t">>

NoSheet == [exists |-> FALSE, colA |-> <<>>]

\* ws.col_values(1)
ColValues(ws) == ws.colA

\* ws.append_row([value]): after the last row that holds data
AppendRow(ws, value) == [ws EXCEPT !.colA = Append(@, value)]

\* ws.update("A<n>", value)
UpdateCell(ws, n, value) ==
    [ws EXCEPT !.colA =
        [k \in 1..(IF n > Len(@) THEN n ELSE Len(@)) |->
            IF k = n THEN value ELSE IF k <= Len(@) THEN @[k] ELSE <<>>]]

\* ws.delete_rows(first, last): the rows below move up
DeleteRows(ws, first, last) ==
    LET col == ws.colA
        keep == SelectSeq([k \in 1..Len(col) |-> k], LAMBDA k : k < first \/ k > last)
    IN  [ws EXCEPT !.colA = [j \in 1..Len(keep) |-> col[keep[j]]]]

\* GoogleSheetsManager.get_worksheet: the worksheet of the chat after the call
\* (found, or created with the header in A1)
GetWorksheet(ws) ==
    IF ws.exists THEN ws ELSE UpdateCell([exists |-> TRUE, colA |-> <<>>], 1, Header)

\* GoogleSheetsManager.get_items: col_values(1)[1:] without the blank cells
GetItems(ws) ==
    LET col == ColValues(ws)
    IN  SelectSeq(IF col = <<>> THEN <<>> ELSE Tail(col), LAMBDA cell : Strip(cell) # <<>>)

\* the search loop of GoogleSheetsManager.add_item: 0-based index of the first
\* row whose parsed article equals item, or -1 (None)
ExistingIndex(items, item) ==
    LET found == {i \in 1..Len(items) : ParseItem(items[i]).item = item}
    IN  IF found = {} THEN -1 ELSE Min(found) - 1

\* the write of GoogleSheetsManager.add_item (lines 94-106)
AddItemWriteNoHeaderOffset(ws, items, item, quantity) ==
    Let(ExistingIndex(items, item), LAMBDA existing_index :
        IF existing_index # -1
        THEN Let(ParseItem(items[existing_index + 1]).quantity + quantity, LAMBDA new_quantity :
                 UpdateCell(ws, existing_index + 1, FormatItem(item, new_quantity)))
        ELSE AppendRow(ws, FormatItem(item, quantity)))

AddItemWrite(ws, items, item, quantity) ==
    Let(ExistingIndex(items, item), LAMBDA existing_index :
        IF existing_index # -1
        THEN Let(ParseItem(items[existing_index + 1]).quantity + quantity, LAMBDA new_quantity :
                 UpdateCell(ws, existing_index + 2, FormatItem(item, new_quantity)))
        ELSE AppendRow(ws, FormatItem(item, quantity)))

\* GoogleSheetsManager.remove_item
RemoveItemNoHeaderOffset(ws, index) == DeleteRows(ws, index + 1, index + 1)

RemoveItem(ws, index) == DeleteRows(ws, index + 2, index + 2)

\* clear_list handler: rows = len(col_values(1)); delete_rows(2, rows) when rows > 1
ClearRowsKeepsLast(ws, rows) == IF rows > 1 THEN DeleteRows(ws, 2, rows - 1) ELSE ws

ClearRows(ws, rows) == IF rows > 1 THEN DeleteRows(ws, 2, rows) ELSE ws

\* stats handler: sum of the parsed quantities
RECURSIVE TotalItems(_)
TotalItems(items) ==
    IF items = <<>> THEN 0 ELSE ParseItem(items[1]).quantity + TotalItems(Tail(items))


(***************************************************************************)
(* Inputs: the updates a webhook request may carry.                        *)
(***************************************************************************)
tX == <<"X">>
tY == <<"Y">>
tQ0 == <<"(", "0", ")">>
tQ1 == <<"(", "1", ")">>
tQ2 == <<"(", "2", ")">>

\* context.args of the /add commands (the message text split on whitespace)
AddArgs == {<<tX>>, <<tY>>, <<tX, tQ2>>, <<tX, tQ2, tQ1>>, <<tX, tQ0>>, <<tQ2>>}

\* the index of a remove_<index> callback
Positions == -1..1

Update(chat, kind, args, pos) == [chat |-> chat, kind |-> kind, args |-> args, pos |-> pos]

\* the updates of the first chat, and a few of a second chat
Updates ==
    {Update(1, "add", a, 0) : a \in AddArgs}
    \cup {Update(1, k, <<>>, 0) : k \in {"list", "clear", "stats"}}
    \cup {Update(1, "remove", <<>>, p) : p \in Positions}
    \cup {Update(2, "add", <<tX>>, 0), Update(2, "clear", <<>>, 0), Update(2, "remove", <<>>, 0)}

\* one update for every handler, for the runs that check the progress of the loop
FewUpdates ==
    {Update(1, "add", <<tX>>, 0), Update(1, "list", <<>>, 0), Update(1, "stats", <<>>, 0),
     Update(1, "clear", <<>>, 0), Update(1, "remove", <<>>, 0)}

NoUpdate == Update(0, "none", <<>>, 0)

(***************************************************************************)
(* State.                                                                  *)
(***************************************************************************)
VARIABLES
    hostname,     \* RENDER_EXTERNAL_HOSTNAME is set
    mainPc,       \* main(): "start", "wait" (busy-wait on bot_instance), "serving"
    workerPc,     \* telegram_worker(): "notstarted", "initialize", "hostname",
                  \* "set_webhook", "get", "await", "except", "returned", "crashed"
    botInstance,  \* bot_instance is not None
    queue,        \* cross_thread_queue
    rpc,          \* per Flask thread: "idle" or "put"
    rupd,         \* per Flask thread: the update it decoded
    nReq,         \* requests received so far
    inflight,     \* the handler activations process_update is running
    sheet,        \* the worksheet of each chat
    cache,        \* keys of gs_manager._worksheet_cache
    answered,     \* history: the kinds of request answered so far, with the response
    codec,        \* the texts handed to the item codec on its own (see CodecSpec)
    nPut,         \* history: number of completed cross_thread_queue.put
    startLog,     \* history: tickets of the updates in the order their dispatch began
    addLog        \* history, per chat: the add_item calls that wrote, in call order,
                  \* as long as nothing was removed or cleared in the chat (pure)

vars == <<hostname, mainPc, workerPc, botInstance, queue, rpc, rupd, nReq, inflight,
          sheet, cache, answered, codec, nPut, startLog, addLog>>

progVars == <<hostname, mainPc, workerPc, botInstance, queue, rpc, rupd, nReq, inflight,
              sheet, cache, answered, nPut, startLog, addLog>>

bootVars == <<hostname, mainPc, botInstance>>
recvVars == <<rpc, rupd, nReq, nPut, answered>>
storeVars == <<sheet, cache, addLog>>

\* a request of the given kind was answered with resp; enqueued tells whether
\* its update was put on the queue
Answer(body, resp, enqueued) == [body |-> body, resp |-> resp, enqueued |-> enqueued]

\* the codec has been handed nothing
NoCodec == [name |-> <<>>, quantity |-> 0, phase |-> "none", text |-> <<>>,
            parsed |-> [item |-> <<>>, quantity |-> 0]]

NoReply == [msg |-> "none", text |-> <<>>, count |-> 0, total |-> 0]

Reply(msg, text, count, total) == [msg |-> msg, text |-> text, count |-> count, total |-> total]

\* a handler called by app.process_update for the update with ticket id
Activation(id, upd) ==
    [id |-> id, upd |-> upd, step |-> "start", items |-> <<>>, rows |-> 0,
     reply |-> NoReply, guarded |-> FALSE, failed |-> FALSE]

\* the program before main() runs
ProgramInit ==
    /\ hostname \in BOOLEAN
    /\ mainPc = "start"
    /\ workerPc = "notstarted"
    /\ botInstance = FALSE
    /\ queue = <<>>
    /\ rpc = [t \in Receivers |-> "idle"]
    /\ rupd = [t \in Receivers |-> NoUpdate]
    /\ nReq = 0
    /\ inflight = {}
    /\ sheet = [c \in Chats |-> NoSheet]
    /\ cache = {}
    /\ answered = {}
    /\ nPut = 0
    /\ startLog = <<>>
    /\ addLog = [c \in Chats |-> [pure |-> TRUE, calls |-> <<>>]]

Init == ProgramInit /\ codec = NoCodec

(***************************************************************************)
(* main() and the start of telegram_worker().                              *)
(***************************************************************************)
\* threading.Thread(target=run_telegram_worker, daemon=True).start()
MainStartWorker ==
    /\ mainPc = "start"
    /\ mainPc' = "wait"
    /\ workerPc' = "initialize"
    /\ UNCHANGED <<codec, hostname, botInstance, queue, recvVars, inflight, storeVars, startLog>>

\* while bot_instance is None: sleep; then flask_app.run(...)
MainRunFlask ==
    /\ mainPc = "wait"
    /\ botInstance
    /\ mainPc' = "serving"
    /\ UNCHANGED <<codec, hostname, botInstance, workerPc, queue, recvVars, inflight, storeVars,
                   startLog>>

\* app.initialize(); app.start(); bot_instance = app.bot
WorkerInitialize ==
    /\ workerPc = "initialize"
    /\ \/ /\ workerPc' = "hostname"
          /\ botInstance' = TRUE
       \/ /\ workerPc' = "crashed"
          /\ UNCHANGED botInstance
    /\ UNCHANGED <<codec, hostname, mainPc, queue, recvVars, inflight, storeVars, startLog>>

\* if not hostname: return
WorkerHostname ==
    /\ workerPc = "hostname"
    /\ workerPc' = IF hostname THEN "set_webhook" ELSE "returned"
    /\ UNCHANGED <<codec, bootVars, queue, recvVars, inflight, storeVars, startLog>>

\* await app.bot.set_webhook(url=webhook_url)
WorkerSetWebhook ==
    /\ workerPc = "set_webhook"
    /\ \/ workerPc' = "get"
       \/ workerPc' = "crashed"
    /\ UNCHANGED <<codec, bootVars, queue, recvVars, inflight, storeVars, startLog>>

(***************************************************************************)
(* telegram_webhook(), one call per request, on the Flask threads.         *)
(***************************************************************************)
\* queue.Queue.put
QueuePut(q, e) == Append(q, e)

\* queue.Queue.get: the item handed out and the queue that is left
QueueGetLifo(q) == [item |-> q[Len(q)], rest |-> SubSeq(q, 1, Len(q) - 1)]

QueueGet(q) == [item |-> Head(q), rest |-> Tail(q)]

\* the request passed the bot_id and JSON checks and was decoded into one of
\* the updates of U
WebhookDecode(t, U) ==
    /\ mainPc = "serving"
    /\ rpc[t] = "idle"
    /\ nReq < MaxEvents
    /\ \E u \in U : rupd' = [rupd EXCEPT ![t] = u]
    /\ rpc' = [rpc EXCEPT ![t] = "put"]
    /\ nReq' = nReq + 1
    /\ UNCHANGED <<codec, bootVars, workerPc, queue, nPut, answered, inflight, storeVars, startLog>>

\* cross_thread_queue.put(update); return "OK"
WebhookPut(t) ==
    /\ rpc[t] = "put"
    /\ queue' = QueuePut(queue, [id |-> nPut + 1, upd |-> rupd[t]])
    /\ nPut' = nPut + 1
    /\ rpc' = [rpc EXCEPT ![t] = "idle"]
    /\ rupd' = [rupd EXCEPT ![t] = NoUpdate]
    /\ answered' = answered \cup {Answer("update", "OK", TRUE)}
    /\ UNCHANGED <<codec, bootVars, workerPc, nReq, inflight, storeVars, startLog>>

(***************************************************************************)
(* The worker loop.                                                        *)
(***************************************************************************)
\* where the loop is after cross_thread_queue.get returned an update:
\* inside "await app.process_update(update)" until the handler has ended
PcNotAwaited == "get"

PcAfterGet == "await"

\* where the loop is after a handler raised: in its "except Exception" clause
PcNoExceptClause == "crashed"

PcAfterRaise == "except"

\* update = cross_thread_queue.get(timeout=1); await app.process_update(update)
WorkerGet ==
    /\ workerPc = "get"
    /\ queue # <<>>
    /\ LET got == QueueGet(queue)
       IN  /\ queue' = got.rest
           /\ inflight' = inflight \cup {Activation(got.item.id, got.item.upd)}
           /\ startLog' = Append(startLog, got.item.id)
    /\ workerPc' = PcAfterGet
    /\ UNCHANGED <<codec, bootVars, recvVars, storeVars>>

\* the handler has returned: the loop goes back to cross_thread_queue.get
Returned(a) ==
    /\ inflight' = inflight \ {a}
    /\ workerPc' = "get"
    /\ UNCHANGED <<codec, bootVars, queue, recvVars, startLog>>

\* the handler has raised
Raised(a) ==
    /\ inflight' = inflight \ {a}
    /\ workerPc' = PcAfterRaise
    /\ UNCHANGED <<codec, bootVars, queue, recvVars, startLog>>

\* except Exception as e: logging.error(...); next iteration
WorkerExcept ==
    /\ workerPc = "except"
    /\ workerPc' = "get"
    /\ UNCHANGED <<codec, bootVars, queue, recvVars, inflight, storeVars, startLog>>

\* the handler goes on to its next step
Step(a, b) ==
    /\ inflight' = (inflight \ {a}) \cup {b}
    /\ UNCHANGED <<codec, bootVars, workerPc, queue, recvVars, startLog>>

(***************************************************************************)
(* The handlers.                                                           *)
(***************************************************************************)
\* str(chat_id): the title of the worksheet of a chat
TitleOfFirstChat(chat_id) == 1

Title(chat_id) == chat_id

\* the worksheet get_worksheet(chat) hands out: the cached one, or the one
\* found or created
Worksheet(c) == IF c \in cache THEN sheet[Title(c)] ELSE GetWorksheet(sheet[Title(c)])

\* a call that gets the worksheet and only reads it
ReadsStore(c) ==
    /\ sheet' = [sheet EXCEPT ![Title(c)] = Worksheet(c)]
    /\ cache' = cache \cup {c}
    /\ UNCHANGED addLog

\* add_item handler up to the search of GoogleSheetsManager.add_item:
\* the argument checks, get_worksheet, get_items
AddRead(a) ==
    /\ a.step = "start"
    /\ a.upd.kind = "add"
    /\ \E parsed \in {ParseAddArgs(a.upd.args)} :
           IF ~parsed.ok
           THEN /\ Step(a, [a EXCEPT !.step = "reply",
                                     !.reply = Reply(parsed.why, <<>>, 0, 0)])
                /\ UNCHANGED storeVars
           ELSE /\ ReadsStore(a.upd.chat)
                /\ \E items \in {GetItems(Worksheet(a.upd.chat))} :
                       Step(a, [a EXCEPT !.step = "write", !.items = items])

\* the write of GoogleSheetsManager.add_item and the reply of the handler
AddWrite(a) ==
    /\ a.step = "write"
    /\ a.upd.kind = "add"
    /\ \E parsed \in {ParseAddArgs(a.upd.args)} :
       \E ws \in {AddItemWrite(sheet[Title(a.upd.chat)], a.items, parsed.item, parsed.quantity)} :
       \E text \in {FormatItem(parsed.item, parsed.quantity)} :
           /\ sheet' = [sheet EXCEPT ![Title(a.upd.chat)] = ws]
           /\ addLog' = [addLog EXCEPT ![a.upd.chat].calls =
                            IF addLog[a.upd.chat].pure
                            THEN Append(@, [item |-> parsed.item, quantity |-> parsed.quantity])
                            ELSE @]
           /\ Step(a, [a EXCEPT !.step = "reply", !.guarded = TRUE,
                                !.reply = Reply("added", text, 0, 0)])
    /\ UNCHANGED cache

\* show_list handler
ShowList(a) ==
    /\ a.step = "start"
    /\ a.upd.kind = "list"
    /\ ReadsStore(a.upd.chat)
    /\ \E items \in {GetItems(Worksheet(a.upd.chat))} :
           Step(a, [a EXCEPT !.step = "reply", !.guarded = TRUE, !.items = items,
                             !.reply = Reply(IF items = <<>> THEN "empty" ELSE "list",
                                             <<>>, 0, 0)])

\* stats handler
Stats(a) ==
    /\ a.step = "start"
    /\ a.upd.kind = "stats"
    /\ ReadsStore(a.upd.chat)
    /\ \E items \in {GetItems(Worksheet(a.upd.chat))} :
       \E total_items \in {TotalItems(items)} :
           Step(a, [a EXCEPT !.step = "reply", !.items = items,
                             !.reply = Reply("stats", <<>>, Len(items), total_items)])

\* clear_list handler: ws = get_worksheet(chat_id); rows = len(ws.col_values(1))
ClearRead(a) ==
    /\ a.step = "start"
    /\ a.upd.kind = "clear"
    /\ LET c == a.upd.chat
       IN  /\ ReadsStore(c)
           /\ Step(a, [a EXCEPT !.step = "write", !.rows = Len(ColValues(Worksheet(c)))])

\* clear_list handler: if rows > 1: ws.delete_rows(2, rows); reply
ClearWrite(a) ==
    /\ a.step = "write"
    /\ a.upd.kind = "clear"
    /\ sheet' = [sheet EXCEPT ![Title(a.upd.chat)] = ClearRows(@, a.rows)]
    /\ addLog' = [addLog EXCEPT ![a.upd.chat] = [pure |-> FALSE, calls |-> <<>>]]
    /\ Step(a, [a EXCEPT !.step = "reply", !.guarded = TRUE,
                         !.reply = Reply("cleared", <<>>, 0, 0)])
    /\ UNCHANGED cache

\* the range test of button_handler
InRangeNoLowerBound(index, items) == index < Len(items)

InRange(index, items) == 0 <= index /\ index < Len(items)

\* button_handler: query.answer(); items = get_items(chat_id); the range test
RemoveRead(a) ==
    /\ a.step = "start"
    /\ a.upd.kind = "remove"
    /\ ReadsStore(a.upd.chat)
    /\ \E items \in {GetItems(Worksheet(a.upd.chat))} :
           IF InRange(a.upd.pos, items)
           THEN Step(a, [a EXCEPT !.step = "write", !.items = items])
           ELSE Step(a, [a EXCEPT !.step = "reply", !.guarded = TRUE, !.items = items,
                                  !.reply = Reply("gone", <<>>, 0, 0)])

\* items[index] of a Python list: an index below 0 counts from the end, an
\* index out of range raises IndexError
HasIndex(items, index) == -Len(items) <= index /\ index < Len(items)

AtIndex(items, index) == IF index < 0 THEN items[Len(items) + index + 1] ELSE items[index + 1]

\* button_handler: gs_manager.remove_item(chat_id, index); reply items[index]
\* (an IndexError is caught by the handler's except clause)
RemoveWrite(a) ==
    /\ a.step = "write"
    /\ a.upd.kind = "remove"
    /\ sheet' = [sheet EXCEPT ![Title(a.upd.chat)] = RemoveItem(@, a.upd.pos)]
    /\ addLog' = [addLog EXCEPT ![a.upd.chat] = [pure |-> FALSE, calls |-> <<>>]]
    /\ IF HasIndex(a.items, a.upd.pos)
       THEN Step(a, [a EXCEPT !.step = "reply", !.guarded = TRUE,
                              !.reply = Reply("removed", AtIndex(a.items, a.upd.pos), 0, 0)])
       ELSE Step(a, [a EXCEPT !.step = "reply", !.guarded = FALSE,
                              !.reply = Reply("error", <<>>, 0, 0)])
    /\ UNCHANGED cache

\* button_handler: await query.answer() raises, outside of the try block
AnswerRaises(a) ==
    /\ a.step = "start"
    /\ a.upd.kind = "remove"
    /\ Raised(a)
    /\ UNCHANGED storeVars

\* the reply is sent and the handler returns
ReplySent(a) ==
    /\ a.step = "reply"
    /\ Returned(a)
    /\ UNCHANGED storeVars

\* sending the reply raises: inside a try block the handler sends its error
\* reply instead, outside of one the exception leaves the handler
ReplyRaises(a) ==
    /\ a.step = "reply"
    /\ IF a.guarded
       THEN Step(a, [a EXCEPT !.guarded = FALSE, !.reply = Reply("error", <<>>, 0, 0)])
       ELSE Raised(a)
    /\ UNCHANGED storeVars

Handler(a) ==
    \/ AddRead(a)
    \/ AddWrite(a)
    \/ ShowList(a)
    \/ Stats(a)
    \/ ClearRead(a)
    \/ ClearWrite(a)
    \/ RemoveRead(a)
    \/ RemoveWrite(a)
    \/ AnswerRaises(a)
    \/ ReplySent(a)
    \/ ReplyRaises(a)

\* the steps of the main thread, of the worker thread, and of the Flask threads
Main == MainStartWorker \/ MainRunFlask

Worker ==
    \/ WorkerInitialize
    \/ WorkerHostname
    \/ WorkerSetWebhook
    \/ WorkerGet
    \/ WorkerExcept
    \/ \E a \in inflight : Handler(a)

Next ==
    \/ MainStartWorker
    \/ MainRunFlask
    \/ WorkerInitialize
    \/ WorkerHostname
    \/ WorkerSetWebhook
    \/ \E t \in Receivers : WebhookDecode(t, Updates)
    \/ \E t \in Receivers : WebhookPut(t)
    \/ WorkerGet
    \/ WorkerExcept
    \/ \E a \in inflight : Handler(a)

Spec == Init /\ [][Next]_vars

\* the same program, its requests drawn from FewUpdates
NextFew ==
    \/ Main
    \/ Worker
    \/ \E t \in Receivers : WebhookDecode(t, FewUpdates)
    \/ \E t \in Receivers : WebhookPut(t)

\* every thread that can take a step eventually takes one; requests arrive or not
Fairness ==
    /\ WF_vars(Main)
    /\ WF_vars(Worker)
    /\ \A t \in Receivers : WF_vars(WebhookPut(t))

FairSpec == Init /\ [][NextFew]_vars /\ Fairness


(***************************************************************************)
(* The same program with the failures of its surroundings: requests the    *)
(* receiver does not enqueue, store calls that raise, and the end of the   *)
(* process.                                                                *)
(***************************************************************************)
\* the requests telegram_webhook answers without a put, with the answer Flask
\* gives: a bot_id that is not the expected one; a body get_json() returns
\* None for; a body get_json() cannot parse (it raises BadRequest); a JSON
\* body that is not an object (json_data.get raises AttributeError, outside
\* of the try block); an object Update.de_json or the put raises on
Refusals ==
    {Answer("mismatch", "OK", FALSE),
     Answer("none", "OK", FALSE),
     Answer("unparseable", "400", FALSE),
     Answer("nonobject", "500", FALSE),
     Answer("undecodable", "OK", FALSE)}

WebhookRefuses(t) ==
    /\ mainPc = "serving"
    /\ rpc[t] = "idle"
    /\ nReq < MaxEvents
    /\ \E r \in Refusals : answered' = answered \cup {r}
    /\ nReq' = nReq + 1
    /\ UNCHANGED <<codec, bootVars, workerPc, queue, rpc, rupd, nPut, inflight, storeVars,
                   startLog>>

\* the handler's own failure reply, sent from its except clause
FailureReply(a) ==
    [a EXCEPT !.step = "reply", !.guarded = FALSE, !.failed = TRUE,
              !.reply = Reply("error", <<>>, 0, 0)]

\* the handlers that read through get_items, which catches every exception
\* and returns []: they go on with an empty list
EmptyListReply(a) ==
    [a EXCEPT !.step = "reply", !.failed = TRUE, !.items = <<>>,
              !.guarded = a.upd.kind # "stats",
              !.reply = IF a.upd.kind = "list" THEN Reply("empty", <<>>, 0, 0)
                        ELSE IF a.upd.kind = "stats" THEN Reply("stats", <<>>, 0, 0)
                        ELSE Reply("gone", <<>>, 0, 0)]

\* the handler is about to make its first store call
AtFirstStoreCall(a) ==
    /\ a.step = "start"
    /\ a.upd.kind = "add" => ParseAddArgs(a.upd.args).ok

\* get_worksheet raises: the lookup or add_worksheet failed and nothing
\* changed, or add_worksheet had created the worksheet and the write of the
\* header raised; the handle is not cached
GetWorksheetRaises(a) ==
    /\ AtFirstStoreCall(a)
    /\ a.upd.chat \notin cache
    /\ \E created \in BOOLEAN :
           /\ created => ~sheet[Title(a.upd.chat)].exists
           /\ sheet' = IF created
                       THEN [sheet EXCEPT ![Title(a.upd.chat)] =
                                [exists |-> TRUE, colA |-> <<>>]]
                       ELSE sheet
    /\ UNCHANGED <<cache, addLog>>
    /\ Step(a, IF a.upd.kind \in {"add", "clear"} THEN FailureReply(a) ELSE EmptyListReply(a))

\* get_worksheet returns and ws.col_values(1) raises: inside get_items the
\* exception is caught and [] returned (add_item goes on to its write), in
\* clear_list it reaches the except clause of the handler
ColValuesRaises(a) ==
    /\ AtFirstStoreCall(a)
    /\ ReadsStore(a.upd.chat)
    /\ Step(a, IF a.upd.kind = "add"
               THEN [a EXCEPT !.step = "write", !.items = <<>>, !.failed = TRUE]
               ELSE IF a.upd.kind = "clear" THEN FailureReply(a)
               ELSE EmptyListReply(a))

\* ws.update, ws.append_row or ws.delete_rows raises: nothing is written
WriteRaises(a) ==
    /\ a.step = "write"
    /\ UNCHANGED storeVars
    /\ Step(a, FailureReply(a))

StoreCallRaises(a) ==
    \/ GetWorksheetRaises(a)
    \/ ColValuesRaises(a)
    \/ WriteRaises(a)

\* the process has not ended
Running == mainPc # "exited"

\* SIGINT or SIGTERM: flask_app.run ends and main returns, or the process is
\* ended outright; the worker, a daemon thread, ends with it wherever it is
ProcessExit ==
    /\ Running
    /\ mainPc' = "exited"
    /\ UNCHANGED <<codec, hostname, botInstance, workerPc, queue, recvVars, inflight,
                   storeVars, startLog>>

FaultNext ==
    \/ Running /\ Main
    \/ Running /\ Worker
    \/ Running /\ \E a \in inflight : StoreCallRaises(a)
    \/ Running /\ \E t \in Receivers : WebhookDecode(t, FewUpdates)
    \/ Running /\ \E t \in Receivers : WebhookPut(t)
    \/ Running /\ \E t \in Receivers : WebhookRefuses(t)
    \/ ProcessExit

FaultSpec == Init /\ [][FaultNext]_vars

(***************************************************************************)
(* The item codec on its own: a name and a quantity are formatted as       *)
(* add_item formats them and the text is parsed back by _parse_item.       *)
(***************************************************************************)
NameChars == {"X", " ", "(", ")", "2"}

\* the articles the add_item handler can pass on: stripped and not empty
Names ==
    {n \in UNION {[1..len -> NameChars] : len \in 1..MaxNameLen} : Strip(n) = n}

CodecInit ==
    /\ ProgramInit
    /\ codec \in {[NoCodec EXCEPT !.name = n, !.quantity = q, !.phase = "given"] :
                      n \in Names, q \in 1..MaxQuantity}

\* row_value = f"{item} ({quantity})" if quantity > 1 else item
CodecFormat ==
    /\ codec.phase = "given"
    /\ codec' = [codec EXCEPT !.phase = "formatted",
                              !.text = FormatItem(codec.name, codec.quantity)]
    /\ UNCHANGED progVars

\* parsed_item, parsed_qty = self._parse_item(row)
CodecParse ==
    /\ codec.phase = "formatted"
    /\ codec' = [codec EXCEPT !.phase = "parsed", !.parsed = ParseItem(codec.text)]
    /\ UNCHANGED progVars

CodecNext == CodecFormat \/ CodecParse

CodecSpec == CodecInit /\ [][CodecNext]_vars

(***************************************************************************)
(* Properties.                                                             *)
(***************************************************************************)
Range(f) == {f[i] : i \in DOMAIN f}

Started == Range(startLog)

\* tickets of the updates whose dispatch has run to completion
Dispatched == Started \ {a.id : a \in inflight}

Quiet == queue = <<>> /\ inflight = {} /\ \A t \in Receivers : rpc[t] = "idle"

\* list(c): the data rows a fresh get_items would return
List(c) == GetItems(sheet[c])

\* C1: tickets are handed out in the order the puts complete; the i-th
\* dispatch to begin is that of the i-th update enqueued, and when a dispatch
\* begins every dispatch begun before it has run to completion.
C1_DispatchInEnqueueOrder ==
    /\ \A i \in 1..Len(startLog) : startLog[i] = i
    /\ \A i \in 1..(Len(startLog) - 1) : startLog[i] \in Dispatched

\* two updates were waiting in the queue together and both have been dispatched,
\* while a Flask thread is enqueuing a third
C1_Witness ==
    /\ Len(startLog) >= 2
    /\ 1 \in Dispatched
    /\ \E t \in Receivers : rpc[t] = "put"

\* C2: at most one update is being dispatched, and while a handler runs the
\* worker loop is inside process_update (it is not at cross_thread_queue.get),
\* whatever the Flask threads are doing.
C2_SingleDispatch ==
    /\ Cardinality(inflight) <= 1
    /\ inflight # {} => workerPc = "await"

\* a handler is about to write to the store while another update waits in the
\* queue and a Flask thread is about to enqueue a third
C2_Witness ==
    /\ \E a \in inflight : a.step = "write"
    /\ queue # <<>>
    /\ \E t \in Receivers : rpc[t] = "put"

\* C3: when the add_item calls made so far in a chat (nothing removed or
\* cleared) are N >= 1 calls for one and the same name with quantity 1, the
\* list of the chat is the single entry format(name, N).
C3_NoLostUpdate ==
    \A c \in Chats :
        LET calls == addLog[c].calls
        IN  (/\ addLog[c].pure
             /\ calls # <<>>
             /\ \A i \in 1..Len(calls) : calls[i] = [item |-> calls[1].item, quantity |-> 1])
            => List(c) = <<FormatItem(calls[1].item, Len(calls))>>

\* three /add X requests went through the two Flask threads and all are dispatched
C3_Witness ==
    /\ Quiet
    /\ addLog[1].pure
    /\ addLog[1].calls = [i \in 1..3 |-> [item |-> tX, quantity |-> 1]]
    /\ Len(startLog) = 3

\* a name without regard to case and to runs of whitespace
Lower(ch) == IF ch = "X" THEN "x" ELSE IF ch = "Y" THEN "y" ELSE ch

RECURSIVE Collapse(_)
Collapse(s) ==
    IF Len(s) < 2 THEN s
    ELSE IF IsSpace(s[1]) /\ IsSpace(s[2]) THEN Collapse(Tail(s))
    ELSE <<s[1]>> \o Collapse(Tail(s))

Normalized(name) == LET t == Collapse(Strip(name)) IN [k \in 1..Len(t) |-> Lower(t[k])]

\* C4: after add commands only, no two rows of the list of a chat parse to
\* the same name, names compared without regard to case and whitespace.
C4_NameUnique ==
    \A c \in Chats :
        addLog[c].pure =>
            \A i, j \in 1..Len(List(c)) :
                i < j => Normalized(ParseItem(List(c)[i]).item)
                             # Normalized(ParseItem(List(c)[j]).item)

\* the activation a takes its store-writing step of the given kind of update
Writes(a, kind) == a.step = "write" /\ a.upd.kind = kind /\ a \notin inflight'

\* positions (from 1) of the rows of a list that parse to the name
EntriesFor(items, name) == {i \in 1..Len(items) : ParseItem(items[i]).item = name}

\* C5: an add of (name, q) in a chat whose list holds an entry for name, with
\* quantity e, replaces the text of that row (the first such) by
\* format(name, e + q), leaves every other cell of the worksheet and the
\* worksheets of the other chats as they are.
C5_MergeInPlace ==
    [][\A a \in inflight :
        LET c == a.upd.chat
            p == ParseAddArgs(a.upd.args)
            held == EntriesFor(List(c), p.item)
        IN  (Writes(a, "add") /\ held # {}) =>
                LET i == Min(held)
                    e == ParseItem(List(c)[i]).quantity
                IN  /\ GetItems(sheet'[c]) = [List(c) EXCEPT ![i] = FormatItem(p.item, e + p.quantity)]
                    /\ sheet'[c] = [sheet[c] EXCEPT !.colA[i + 1] = FormatItem(p.item, e + p.quantity)]
                    /\ \A d \in Chats \ {c} : sheet'[d] = sheet[d]]_vars

\* /add X (2), /add Y, /add X (2): the first row was rewritten in place to X (4)
C5_Witness ==
    /\ addLog[1].calls = <<[item |-> tX, quantity |-> 2], [item |-> tY, quantity |-> 1],
                           [item |-> tX, quantity |-> 2]>>
    /\ List(1) = <<FormatItem(tX, 4), tY>>

\* C6: when the add_item calls made so far in a chat (nothing removed or
\* cleared) have pairwise distinct names, the list of the chat is the entries
\* of those calls in call order.
C6_InsertionOrder ==
    \A c \in Chats :
        LET calls == addLog[c].calls
        IN  (/\ addLog[c].pure
             /\ \A i, j \in 1..Len(calls) : i < j => calls[i].item # calls[j].item)
            => List(c) = [i \in 1..Len(calls) |-> FormatItem(calls[i].item, calls[i].quantity)]

\* the cells of column A below the header row
DataRows(ws) == IF ws.colA = <<>> THEN <<>> ELSE Tail(ws.colA)

Without(seq, i) == [k \in 1..(Len(seq) - 1) |-> IF k < i THEN seq[k] ELSE seq[k + 1]]

\* C7: a remove_<p> callback whose p is within the list fetched at dispatch
\* goes on to delete, whatever the list looked like when it was rendered; the
\* delete removes row p + 2 of the worksheet, which is entry p of the current
\* list, keeps the other rows in order, and the reply names the deleted row.
C7_RemoveAtPosition ==
    [][\A a \in inflight :
        LET c == a.upd.chat
            p == a.upd.pos
        IN  /\ (/\ a.step = "start" /\ a.upd.kind = "remove" /\ a \notin inflight'
                /\ 0 <= p /\ p < Len(GetItems(sheet'[c])))
               => \A b \in inflight' :
                      b.id = a.id => b.step = "write" /\ b.items = GetItems(sheet'[c])
            /\ Writes(a, "remove")
               => /\ 0 <= p /\ p < Len(List(c))
                  /\ a.items = List(c)
                  /\ DataRows(sheet[c]) = List(c)
                  /\ sheet'[c] = [sheet[c] EXCEPT !.colA = Without(@, p + 2)]
                  /\ GetItems(sheet'[c]) = Without(List(c), p + 1)
                  /\ \E b \in inflight' :
                         b.id = a.id /\ b.reply = Reply("removed", List(c)[p + 1], 0, 0)]_vars

\* /add X, /add Y, remove_0: X was deleted and named in the reply, Y is left
C7_Witness ==
    /\ \E a \in inflight : a.upd = Update(1, "remove", <<>>, 0) /\ a.reply = Reply("removed", tX, 0, 0)
    /\ List(1) = <<tY>>

\* C8: a remove_<p> callback whose p is below 0 or not below the length of the
\* current list ends in the "already removed" reply, and no step of its
\* handler changes the data rows of any worksheet.
C8_OutOfRangeRemoval ==
    [][\A a \in inflight :
        LET c == a.upd.chat
            p == a.upd.pos
        IN  /\ (a.upd.kind = "remove" /\ a.step = "start" /\ (p < 0 \/ p >= Len(List(c))))
               => /\ \A d \in Chats : DataRows(sheet'[d]) = DataRows(sheet[d])
                  /\ GetItems(sheet'[c]) = List(c)
                  /\ \A b \in inflight' :
                         (b.id = a.id /\ b # a) => b.step = "reply" /\ b.reply.msg = "gone"
            /\ (a.upd.kind = "remove" /\ a.reply.msg = "gone")
               => /\ \A d \in Chats : DataRows(sheet'[d]) = DataRows(sheet[d])
                  /\ \A b \in inflight' : b.id = a.id => b.step = "reply"]_vars

\* /add X, then remove_1 on the one-entry list: answered "already removed"
C8_Witness ==
    /\ \E a \in inflight :
           /\ a.upd.kind = "remove"
           /\ a.reply.msg = "gone"
           /\ a.items # <<>>
           /\ a.upd.pos >= Len(a.items)
    /\ List(1) = <<tX>>

\* the worker loop is running
Looping == workerPc \in {"get", "await", "except"}

\* C9: no update is dispatched twice, none is dispatched that was not
\* enqueued, and every update whose put completed is eventually dispatched.
C9_ExactlyOnce ==
    /\ [](/\ \A i, j \in 1..Len(startLog) : i < j => startLog[i] # startLog[j]
          /\ Started \subseteq 1..nPut)
    /\ \A id \in 1..MaxEvents : (nPut >= id) ~> (id \in Started)

\* C10: a handler that ends, by raising too, leaves the worker in its loop;
\* from the except clause the loop goes back to the queue; and while the loop
\* runs, every update enqueued is eventually dispatched.
C10_LoopSurvivesRaise ==
    /\ [][Looping => Looping']_vars
    /\ [][workerPc = "except" => workerPc' \in {"except", "get"}]_vars
    /\ \A id \in 1..MaxEvents : (Looping /\ nPut >= id) ~> (id \in Started)

\* a handler has raised while another update waits in the queue
C10_Witness == workerPc = "except" /\ queue # <<>>

\* telegram_worker has not reached its loop yet (lines 256-278)
Starting == workerPc \in {"notstarted", "initialize", "hostname", "set_webhook"}

\* telegram_worker ended before its loop: it returned for want of a hostname,
\* or initialize / set_webhook raised
StartupFailed == workerPc \in {"returned", "crashed"}

\* C11: when the start of the worker has failed, the HTTP listener is not
\* bound, and no update is in the queue or about to be put on it.
C11_StartupFailureFatal ==
    /\ StartupFailed => mainPc # "serving"
    /\ StartupFailed => (queue = <<>> /\ \A t \in Receivers : rpc[t] = "idle")

\* C12: the HTTP listener is bound only when the worker has completed its
\* start (set_webhook included), and no request is received before that.
C12_ListenerAfterStarting ==
    /\ mainPc = "serving" => ~Starting
    /\ nReq > 0 => ~Starting

\* sum of the quantities given in a sequence of add_item calls
RECURSIVE SumQuantity(_)
SumQuantity(calls) ==
    IF calls = <<>> THEN 0 ELSE calls[1].quantity + SumQuantity(Tail(calls))

\* C17: when only add commands have written to a chat, the reply of /stats
\* counts the distinct names added and totals the quantities given in those
\* commands, and every row of the list parses to a quantity above 0.
C17_StatsConservation ==
    \A a \in inflight :
        LET c == a.upd.chat
            calls == addLog[c].calls
        IN  (a.upd.kind = "stats" /\ a.reply.msg = "stats" /\ addLog[c].pure)
            => /\ a.reply.count = Cardinality({calls[i].item : i \in 1..Len(calls)})
               /\ a.reply.total = SumQuantity(calls)
               /\ \A i \in 1..Len(List(c)) : ParseItem(List(c)[i]).quantity > 0

\* C15: the write of /clear leaves the header alone in column A, so that the
\* list is empty; on an empty list it changes nothing; it is answered as
\* cleared, not as an error; and an add on the cleared worksheet puts its row
\* in sheet row 2, position 0 of the list.
C15_Clear ==
    [][\A a \in inflight :
        LET c == a.upd.chat
        IN  /\ Writes(a, "clear")
               => /\ sheet'[c].colA = <<Header>>
                  /\ GetItems(sheet'[c]) = <<>>
                  /\ List(c) = <<>> => sheet'[c] = sheet[c]
                  /\ \E b \in inflight' : b.id = a.id /\ b.reply.msg = "cleared"
            /\ (Writes(a, "add") /\ sheet[c].colA = <<Header>>)
               => LET p == ParseAddArgs(a.upd.args)
                  IN  /\ sheet'[c].colA = <<Header, FormatItem(p.item, p.quantity)>>
                      /\ GetItems(sheet'[c]) = <<FormatItem(p.item, p.quantity)>>]_vars

\* /add X, /add Y, /clear: the clear found three rows and left the list empty
C15_Witness ==
    \E a \in inflight :
        /\ a.upd = Update(1, "clear", <<>>, 0)
        /\ a.rows = 3
        /\ a.reply.msg = "cleared"
        /\ sheet[1].colA = <<Header>>

\* C20: a step of the handler of an update of chat c leaves the worksheet of
\* every other chat, and whether a handle is cached for it, as they are.
C20_ScopeIsolation ==
    [][\A a \in inflight :
        a \notin inflight' =>
            \A d \in Chats \ {a.upd.chat} :
                /\ sheet'[d] = sheet[d]
                /\ GetItems(sheet'[d]) = List(d)
                /\ (d \in cache') = (d \in cache)]_vars

\* the second chat holds X, its handle is cached, and /clear is about to write
\* to the first chat, which holds Y
C20_Witness ==
    /\ List(2) = <<tX>>
    /\ 2 \in cache
    /\ List(1) = <<tY>>
    /\ \E a \in inflight : a.upd = Update(1, "clear", <<>>, 0) /\ a.step = "write"

\* the text ends in "(", one or more digits, ")"
EndsInQtySuffix(name) == \E k \in 0..(Len(name) - 1) : MatchesQtySuffix(Suffix(name, k))

\* C16: for a name that does not end in a parenthesized-digits suffix and a
\* quantity of 1 or more, the formatted text is the name itself when the
\* quantity is 1 and the name, a space and the quantity in parentheses
\* otherwise, and parsing it gives the name and the quantity back.
C16_CodecRoundTrip ==
    (codec.phase \in {"formatted", "parsed"} /\ ~EndsInQtySuffix(codec.name) /\ codec.quantity >= 1)
    => /\ codec.text = IF codec.quantity = 1 THEN codec.name
                       ELSE codec.name \o <<" ", "(">> \o StrOf(codec.quantity) \o <<")">>
       /\ codec.phase = "parsed"
          => codec.parsed = [item |-> codec.name, quantity |-> codec.quantity]

\* the name "X (2" with quantity 10 went through format and parse
C16_Witness ==
    /\ codec.phase = "parsed"
    /\ codec.name = <<"X", " ", "(", "2">>
    /\ codec.quantity = 10
    /\ codec.text = <<"X", " ", "(", "2", " ", "(", "1", "0", ")">>
    /\ codec.parsed = [item |-> codec.name, quantity |-> 10]

\* C13: the worker leaves its loop only at the queue wait, with no handler in
\* flight: when the process has ended on a signal, no handler was cut short
\* and the worker was not inside process_update.
C13_CooperativeShutdown ==
    mainPc = "exited" => (inflight = {} /\ workerPc # "await")

\* C14: every request answered so far was answered 200 "OK", and a request
\* with a wrong bot_id or with a missing or invalid body enqueued nothing.
C14_AlwaysAcknowledged ==
    \A r \in answered :
        /\ r.resp = "OK"
        /\ r.body \in {"mismatch", "none", "unparseable", "nonobject"} => ~r.enqueued

\* C18: an /add one of whose store calls has failed ends in the failure reply
\* of the handler, and no step of it from the failure on adds or changes a
\* row of a worksheet.
C18_NoDegradedMutation ==
    [][/\ \A a \in inflight :
              (a.upd.kind = "add" /\ a.failed /\ a \notin inflight')
              => \A c \in Chats : sheet'[c].colA = sheet[c].colA
       /\ \A b \in inflight' :
              (b.upd.kind = "add" /\ b.failed /\ b.step = "reply")
              => b.reply.msg = "error"]_vars

\* C19: a worksheet that exists, or whose handle is cached, has the header in
\* row 1; the rows below it are the list; and as long as only adds have
\* written to a chat, every article an add reported as stored is in the list.
C19_HeaderInvariant ==
    \A c \in Chats :
        /\ (sheet[c].exists \/ c \in cache)
           => /\ sheet[c].colA # <<>>
              /\ sheet[c].colA[1] = Header
              /\ DataRows(sheet[c]) = List(c)
        /\ addLog[c].pure
           => \A i \in 1..Len(addLog[c].calls) :
                  \E j \in 1..Len(List(c)) :
                      ParseItem(List(c)[j]).item = addLog[c].calls[i].item

====
